---- MODULE Spec2Model ----
(***************************************************************************)
(* Model of the two services of goexpert-open-telemetry:                   *)
(*   Front  = src/zip_code/main.go     (goapp-zipcode)                     *)
(*   Back   = src/unnamed/part_002     (goapp-weather)                     *)
(* Characters are one-character strings, texts are sequences of them.     *)
(* JSON values are records [t, v]: t the JSON type, v the text.           *)
(***************************************************************************)
EXTENDS Integers, Sequences, FiniteSets

\* ---------------------------------------------------------------- bounds
\* longest postal-code text typed in SpecValidate
MaxLen == 10
\* requests a handler accepts in one behaviour of Spec
MaxRequests == 2

\* ------------------------------------------------------- program constants
StatusOK == 200
StatusBadRequest == 400
StatusNotFound == 404
StatusMethodNotAllowed == 405
StatusUnprocessableEntity == 422
StatusInternalServerError == 500

MethodNotAllowed == "method not allowed"
UnprocessibleEntity == "invalid zipcode"
InvalidJson == "invalid json"
NotFoundMessage == "can not find zipcode"
FrontInternalServerError == "error while searching for weather"
BackInternalServerError == "error while searching for "

Services == {"front", "back"}
Nil == [t |-> "null", v |-> <<>>]
JString(s) == [t |-> "string", v |-> s]
JNumber(s) == [t |-> "number", v |-> s]
JBool(s) == [t |-> "bool", v |-> s]

\* ------------------------------------------------------------ the validator
Digits == {"0", "1", "2", "3", "4", "5", "6", "7", "8", "9"}

Bol == [k |-> "bol", set |-> {}, min |-> 0, max |-> 0]
Eol == [k |-> "eol", set |-> {}, min |-> 0, max |-> 0]
Class(S, lo, hi) == [k |-> "class", set |-> S, min |-> lo, max |-> hi]

\* regexp.MustCompile(`^[0-9]{5}-?[0-9]{3}$`) of the Front Service
FrontPattern ==
    << Bol, Class(Digits, 5, 5), Class({"-"}, 0, 1), Class(Digits, 3, 3), Eol >>

\* a Back pattern that has lost the end anchor
BackPatternNoEol ==
    << Bol, Class(Digits, 5, 5), Class({"-"}, 0, 1), Class(Digits, 3, 3) >>

\* regexp.MustCompile(`^[0-9]{5}-?[0-9]{3}$`) of the Back Service
BackPattern ==
    << Bol, Class(Digits, 5, 5), Class({"-"}, 0, 1), Class(Digits, 3, 3), Eol >>

\* Can items i.. of pat match s from position j on (Go's \A is text start,
\* $ without the m flag is text end only).
RECURSIVE MatchHere(_, _, _, _)
MatchHere(pat, i, s, j) ==
    IF i > Len(pat) THEN TRUE
    ELSE LET it == pat[i] IN
         CASE it.k = "bol" -> j = 1 /\ MatchHere(pat, i + 1, s, j)
           [] it.k = "eol" -> j = Len(s) + 1 /\ MatchHere(pat, i + 1, s, j)
           [] OTHER ->
                \E n \in it.min .. it.max :
                    /\ j + n - 1 <= Len(s)
                    /\ \A q \in j .. (j + n - 1) : s[q] \in it.set
                    /\ MatchHere(pat, i + 1, s, j + n)

\* Regexp.MatchString: an unanchored search for a match of the pattern
MatchString(pat, s) == \E j \in 1 .. (Len(s) + 1) : MatchHere(pat, 1, s, j)

\* --------------------------------------------------------------- JSON bodies
\* A body is "garbage" (no JSON value can be decoded from it) or a JSON
\* object: a function from its keys to JSON values.
Garbage == [o \in {"#garbage"} |-> [t |-> "null", v |-> <<>>]]
Lookup(obj, key) == IF key \in DOMAIN obj THEN obj[key] ELSE Nil

\* json.Marshal(requestData) for ZipCode{CEP}
MarshalZipCode(cep) == [o \in {"cep"} |-> JString(cep)]

\* json.NewDecoder(r.Body).Decode(&requestData) into ZipCode: ok and the CEP
DecodeZipCode(body) ==
    IF body = Garbage THEN [ok |-> FALSE, cep |-> <<>>]
    ELSE LET f == Lookup(body, "cep") IN
         CASE f.t = "string" -> [ok |-> TRUE, cep |-> f.v]
           [] f.t = "null" -> [ok |-> TRUE, cep |-> <<>>]
           [] OTHER -> [ok |-> FALSE, cep |-> <<>>]

\* ------------------------------------------------------------------- state
VARIABLES
    proc,      \* per service: where main() is, and what initProvider achieved
    handled,   \* per service: requests its HandleRequest has accepted
    nreq,      \* client requests issued so far; a request's id
    freq,      \* Front: the inbound request (rid, method, body)
    fpc,       \* Front: position of HandleRequest
    fdata,     \* Front: requestData.CEP
    fw,        \* Front: the http.ResponseWriter
    fcancel,   \* Front: the inbound request's context is canceled
    call,      \* Front: the outbound call to the Back Service
    breq,      \* Back: the inbound request (rid, origin, method, body, traceparent)
    bpc,       \* Back: position of HandleRequest
    bdata,     \* Back: requestData.CEP, city, the lookups' outcomes
    bw,        \* Back: the http.ResponseWriter
    bcancel,   \* Back: the inbound request's context is canceled
    spans,     \* spans started for the requests in progress
    endLog,    \* names of the spans ended, in the order of their End calls
    input,     \* SpecValidate: the text typed so far
    vstage,    \* SpecValidate: how far the text went through the two services
    verdict    \* SpecValidate: what each validator said

frontVars == <<freq, fpc, fdata, fw, fcancel, call>>
backVars == <<breq, bpc, bdata, bw, bcancel>>
spanVars == <<spans, endLog>>
valVars == <<input, vstage, verdict>>
vars == <<proc, handled, nreq, frontVars, backVars, spanVars, valVars>>

\* ------------------------------------------------------------ contexts, spans
\* A context.Context: the span context it carries (span = "none" when it
\* carries none) and whose cancellation closes its Done channel.
NoTrace == <<0, "none">>
Background == [trace |-> NoTrace, span |-> "none", done |-> "never"]
NoTraceparent == [trace |-> NoTrace, span |-> "none"]

\* a fresh trace identifier: named after the request and the span that roots it
NewTraceID(rid, name) == <<rid, name>>

\* tr.Start(ctx, name): the span, child of the span ctx carries if any
StartSpan(ctx, rid, svc, name) ==
    [name |-> name, svc |-> svc, rid |-> rid,
     trace |-> IF ctx.span = "none" THEN NewTraceID(rid, name) ELSE ctx.trace,
     parent |-> ctx.span]

\* the context tr.Start returns beside the span
WithSpan(ctx, sp) == [trace |-> sp.trace, span |-> sp.name, done |-> ctx.done]

\* otel.GetTextMapPropagator(): neither initProvider calls
\* otel.SetTextMapPropagator, so the global propagator injects nothing.
Propagator == "noop"

\* propagator.Inject: the traceparent header an outbound request carries
Inject(ctx) ==
    IF Propagator = "tracecontext"
    THEN [trace |-> ctx.trace, span |-> ctx.span]
    ELSE NoTraceparent

\* is the context's Done channel closed
Canceled(ctx, fc, bc) ==
    \/ ctx.done = "front" /\ fc
    \/ ctx.done = "back" /\ bc

Ended(name) == \E i \in 1 .. Len(endLog) : endLog[i] = name
Started(name) == \E sp \in spans : sp.name = name
SpanOf(name) == CHOOSE sp \in spans : sp.name = name
EndPos(name) == CHOOSE i \in 1 .. Len(endLog) : endLog[i] = name

\* span.End(): a second End of a span is a no-op
RECURSIVE EndAll(_, _)
EndAll(log, names) ==
    IF names = <<>> THEN log
    ELSE LET n == Head(names)
             seen == \E i \in 1 .. Len(log) : log[i] = n
         IN EndAll(IF seen THEN log ELSE Append(log, n), Tail(names))

\* ------------------------------------------------------- http.ResponseWriter
Text(parts) == [kind |-> "text", text |-> parts, city |-> <<>>,
                c |-> 0, f |-> 0, k |-> 0]
NewWriter == [status |-> 0, body |-> <<>>, headerCalls |-> 0]

\* w.WriteHeader(code): only the first call sets the status
WriteHeader(w, code) ==
    [w EXCEPT !.status = IF @ = 0 THEN code ELSE @, !.headerCalls = @ + 1]

\* w.Write(chunks): an implicit WriteHeader(200) when none came before
Write(w, chunks) ==
    [w EXCEPT !.status = IF @ = 0 THEN StatusOK ELSE @, !.body = @ \o chunks]

\* http.Error(w, msg, code): WriteHeader(code), then Fprintln(w, msg)
HttpError(w, parts, code) == Write(WriteHeader(w, code), <<Text(parts), Text(<<"\n">>)>>)

\* ------------------------------------------------------------------ startup
\* main() of either service: initProvider step by step, then ListenAndServe.
ProcStart == [pc |-> "resource", res |-> "none", conn |-> "none",
              exp |-> "none", tp |-> FALSE]

\* resource.New; log.Fatalf on error ends the process
NewResource(svc) ==
    /\ proc[svc].pc = "resource"
    /\ \E ok \in BOOLEAN :
         proc' = [proc EXCEPT ![svc].res = IF ok THEN "ok" ELSE "failed",
                              ![svc].pc = IF ok THEN "dial" ELSE "aborted"]
    /\ UNCHANGED <<handled, nreq, frontVars, backVars, spanVars, valVars>>

\* a dial whose failure is logged and startup goes on
DialCollectorNoFatal(svc) ==
    /\ proc[svc].pc = "dial"
    /\ \E r \in {"ok", "timeout", "failed"} :
         proc' = [proc EXCEPT ![svc].conn = r, ![svc].pc = "exporter"]
    /\ UNCHANGED <<handled, nreq, frontVars, backVars, spanVars, valVars>>

\* grpc.DialContext with WithBlock under context.WithTimeout(ctx, time.Second)
DialCollector(svc) ==
    /\ proc[svc].pc = "dial"
    /\ \E r \in {"ok", "timeout", "failed"} :
         proc' = [proc EXCEPT ![svc].conn = r,
                              ![svc].pc = IF r = "ok" THEN "exporter" ELSE "aborted"]
    /\ UNCHANGED <<handled, nreq, frontVars, backVars, spanVars, valVars>>

\* otlptracegrpc.New under the same one-second context
NewExporter(svc) ==
    /\ proc[svc].pc = "exporter"
    /\ \E ok \in BOOLEAN :
         proc' = [proc EXCEPT ![svc].exp = IF ok THEN "ok" ELSE "failed",
                              ![svc].pc = IF ok THEN "provider" ELSE "aborted"]
    /\ UNCHANGED <<handled, nreq, frontVars, backVars, spanVars, valVars>>

\* NewBatchSpanProcessor, NewTracerProvider, otel.SetTracerProvider
SetTracerProvider(svc) ==
    /\ proc[svc].pc = "provider"
    /\ proc' = [proc EXCEPT ![svc].tp = TRUE, ![svc].pc = "listen"]
    /\ UNCHANGED <<handled, nreq, frontVars, backVars, spanVars, valVars>>

\* http.HandleFunc, http.ListenAndServe: serves, or returns an error at once
ListenAndServe(svc) ==
    /\ proc[svc].pc = "listen"
    /\ \E ok \in BOOLEAN :
         proc' = [proc EXCEPT ![svc].pc = IF ok THEN "serving" ELSE "exited"]
    /\ UNCHANGED <<handled, nreq, frontVars, backVars, spanVars, valVars>>

\* may the service's handler be entered
Serving(svc) == proc[svc].pc = "serving"

\* ----------------------------------------------------------- client requests
NoReply == [net |-> "none", status |-> 0, read |-> "ok", body |-> Garbage]
NoWeatherReply == [net |-> "none", status |-> 0, read |-> "ok", json |-> FALSE, temp |-> 0]
Methods == {"POST", "GET"}
SampleCeps ==
    { <<"2", "9", "9", "0", "2", "5", "5", "5">>,
      <<"7", "2", "5", "4", "7", "-", "2", "4", "0">>,
      <<"7", "2", "5", "4", "7">>,
      <<"7", "2", "5", "4", "7", "2", "4", "x">> }
Bodies ==
    {Garbage, [o \in {"cep"} |-> JNumber(<<"1">>)]}
      \cup {[o \in {"cep"} |-> JString(c)] : c \in SampleCeps}

NoLookup == [state |-> "none", ctx |-> Background, q |-> <<>>, canceledInFlight |-> FALSE]
NoBackRequest == [rid |-> 0, origin |-> "none", method |-> "none", body |-> Garbage,
                  traceparent |-> NoTraceparent]
NoBackData == [cep |-> <<>>, city |-> <<>>, cityCall |-> NoLookup,
               cityReply |-> NoReply, weatherCall |-> NoLookup,
               weatherReply |-> NoWeatherReply]
NoRequest == [rid |-> 0, method |-> "none", body |-> Garbage]
NoCall == [state |-> "none", ctx |-> Background, body |-> Garbage,
           traceparent |-> NoTraceparent,
           resp |-> NewWriter, canceledInFlight |-> FALSE]

\* Nothing outlives a request and requests share no state: the model follows
\* one client request at a time, from either entry point, and the state of
\* the request before it is discarded when the next one is accepted.
FrontIdle ==
    /\ freq' = NoRequest
    /\ fpc' = "idle"
    /\ fdata' = <<>>
    /\ fw' = NewWriter
    /\ fcancel' = FALSE
    /\ call' = NoCall

BackIdle ==
    /\ breq' = NoBackRequest
    /\ bpc' = "idle"
    /\ bdata' = NoBackData
    /\ bw' = NewWriter
    /\ bcancel' = FALSE

Quiescent ==
    /\ fpc \in {"idle", "done"}
    /\ bpc \in {"idle", "done"}

\* the inbound context of the Back is canceled: note it on a lookup in flight
MarkCanceled(d) ==
    [d EXCEPT !.cityCall.canceledInFlight = @ \/ d.cityCall.state = "inflight",
              !.weatherCall.canceledInFlight = @ \/ d.weatherCall.state = "inflight"]

\* ------------------------------------------------------- Front: HandleRequest
\* The context the Front handler works under: tr.Start(context.Background(), ..)
FrontBaseContext == Background

\* The handler is entered with a client's request; the root span is started.
FrontHandleRequest ==
    /\ Serving("front")
    /\ Quiescent
    /\ nreq < MaxRequests
    /\ \E m \in Methods, b \in Bodies :
         freq' = [rid |-> nreq + 1, method |-> m, body |-> b]
    /\ nreq' = nreq + 1
    /\ handled' = [handled EXCEPT !["front"] = @ + 1]
    /\ fpc' = "checks"
    /\ fdata' = <<>>
    /\ fw' = NewWriter
    /\ fcancel' = FALSE
    /\ call' = NoCall
    /\ spans' = {StartSpan(FrontBaseContext, nreq + 1, "front", "front.request")}
    /\ endLog' = <<>>
    /\ BackIdle
    /\ UNCHANGED <<proc, valVars>>

\* the handler's context after tr.Start
FrontContext == WithSpan(FrontBaseContext, SpanOf("front.request"))

\* the checks with the body decoded before the method is looked at
FrontCheckBodyFirst(req) ==
    LET d == DecodeZipCode(req.body) IN
    IF ~d.ok
      THEN [status |-> StatusBadRequest, msg |-> InvalidJson]
    ELSE IF req.method # "POST"
      THEN [status |-> StatusMethodNotAllowed, msg |-> MethodNotAllowed]
    ELSE IF ~MatchString(FrontPattern, d.cep)
      THEN [status |-> StatusUnprocessableEntity, msg |-> UnprocessibleEntity]
    ELSE [status |-> 0, msg |-> ""]

\* The three local checks, in the order of the code: method, body, format.
\* The status and message of the first that fails, or status 0.
FrontCheck(req) ==
    LET d == DecodeZipCode(req.body) IN
    IF req.method # "POST"
      THEN [status |-> StatusMethodNotAllowed, msg |-> MethodNotAllowed]
    ELSE IF ~d.ok
      THEN [status |-> StatusBadRequest, msg |-> InvalidJson]
    ELSE IF ~MatchString(FrontPattern, d.cep)
      THEN [status |-> StatusUnprocessableEntity, msg |-> UnprocessibleEntity]
    ELSE [status |-> 0, msg |-> ""]

FrontChecks ==
    /\ fpc = "checks"
    /\ LET r == FrontCheck(freq) IN
         IF r.status # 0
           THEN /\ fw' = HttpError(fw, <<r.msg>>, r.status)
                /\ fpc' = "return"
                /\ UNCHANGED fdata
           ELSE /\ fdata' = DecodeZipCode(freq.body).cep
                /\ fpc' = "searchWeather"
                /\ UNCHANGED fw
    /\ UNCHANGED <<proc, handled, nreq, freq, fcancel, call, backVars, spanVars, valVars>>

\* searchWeather up to client.Do: the child span (its context is discarded),
\* the request built with the handler's ctx, the transport's span and headers.
FrontSearchWeather ==
    /\ fpc = "searchWeather"
    /\ LET ctx == FrontContext
           sw == StartSpan(ctx, freq.rid, "front", "front.searchWeather")
           http == StartSpan(ctx, freq.rid, "front", "front.http")
       IN /\ spans' = spans \cup {sw, http}
          /\ call' = [NoCall EXCEPT !.state = "inflight", !.ctx = ctx,
                                    !.body = MarshalZipCode(fdata),
                                    !.traceparent = Inject(WithSpan(ctx, http))]
    /\ fpc' = "do"
    /\ UNCHANGED <<proc, handled, nreq, freq, fdata, fw, fcancel, backVars, endLog, valVars>>

\* a searchWeather that ends its span on the successful return only
FrontSearchWeatherEndsOnSuccess(failed) ==
    IF failed THEN <<"front.http">> ELSE <<"front.searchWeather">>

\* End calls as searchWeather returns: the transport ends its span on an
\* error; the deferred span.End() runs on every return.
FrontSearchWeatherEnds(failed) ==
    IF failed THEN <<"front.http", "front.searchWeather">> ELSE <<"front.searchWeather">>

\* client.Do fails: no connection, a broken one, or the request's ctx is done.
FrontDoError ==
    /\ fpc = "do"
    /\ call.state \in {"inflight", "handling", "answered"}
    /\ \E cause \in {"transport"}
                      \cup (IF Canceled(call.ctx, fcancel, bcancel) THEN {"canceled"} ELSE {}) :
         call' = [call EXCEPT !.state = "failed"]
    /\ endLog' = EndAll(endLog, FrontSearchWeatherEnds(TRUE))
    /\ fw' = HttpError(fw, <<FrontInternalServerError>>, StatusInternalServerError)
    /\ fpc' = "return"
    /\ IF call.state = "handling" /\ bpc \notin {"idle", "done"}
         THEN bcancel' = TRUE /\ bdata' = MarkCanceled(bdata)
         ELSE UNCHANGED <<bcancel, bdata>>
    /\ UNCHANGED <<proc, handled, nreq, freq, fdata, fcancel, breq, bpc, bw, spans, valVars>>

\* client.Do returns the Back Service's response; the handler sets the
\* Content-Type and writes the upstream status code.
FrontDoResponse ==
    /\ fpc = "do"
    /\ call.state = "answered"
    /\ ~Canceled(call.ctx, fcancel, bcancel)
    /\ call' = [call EXCEPT !.state = "responded"]
    /\ endLog' = EndAll(endLog, FrontSearchWeatherEnds(FALSE))
    /\ fw' = WriteHeader(fw, call.resp.status)
    /\ fpc' = "copy"
    /\ UNCHANGED <<proc, handled, nreq, freq, fdata, fcancel, backVars, spans, valVars>>

\* what the handler does when io.Copy returns an error after n chunks
FrontCopyFailed(w, n) ==
    HttpError(Write(w, SubSeq(call.resp.body, 1, n)),
              <<FrontInternalServerError>>, StatusInternalServerError)

\* io.Copy(w, resp.Body) copies the whole upstream body
FrontCopyOk ==
    /\ fpc = "copy"
    /\ fw' = Write(fw, call.resp.body)
    /\ endLog' = EndAll(endLog, <<"front.http">>)
    /\ fpc' = "return"
    /\ UNCHANGED <<proc, handled, nreq, freq, fdata, fcancel, call, backVars, spans, valVars>>

\* io.Copy fails after n chunks of the upstream body
FrontCopyFail ==
    /\ fpc = "copy"
    /\ \E n \in 0 .. (Len(call.resp.body) - 1) : fw' = FrontCopyFailed(fw, n)
    /\ endLog' = EndAll(endLog, <<"front.http">>)
    /\ fpc' = "return"
    /\ UNCHANGED <<proc, handled, nreq, freq, fdata, fcancel, call, backVars, spans, valVars>>

\* The handler's deferred calls, last registered first: resp.Body.Close()
\* when a response was obtained, then the root span's End.
FrontDeferred(st) ==
    IF st = "responded" THEN <<"front.http", "front.request">> ELSE <<"front.request">>

FrontReturn ==
    /\ fpc = "return"
    /\ endLog' = EndAll(endLog, FrontDeferred(call.state))
    /\ fpc' = "done"
    /\ UNCHANGED <<proc, handled, nreq, freq, fdata, fw, fcancel, call, backVars, spans, valVars>>

\* the Front's client goes away while the handler runs
ClientCancelFront ==
    /\ fpc \notin {"idle", "done"}
    /\ ~fcancel
    /\ fcancel' = TRUE
    /\ call' = IF call.state \in {"inflight", "handling", "answered"}
               THEN [call EXCEPT !.canceledInFlight = TRUE] ELSE call
    /\ UNCHANGED <<proc, handled, nreq, freq, fpc, fdata, fw, backVars, spanVars, valVars>>

\* -------------------------------------------------------- Back: the providers
Cities == { <<"R", "i", "o">>, <<"S", " ", "P">> }
\* temperatures in tenths of a degree
Temps == {255, -50}

\* What the postal-code provider answers: a transport error, or a status and
\* a body that can be read or not.
CityReplies ==
    {[net |-> "error", status |-> 0, read |-> "ok", body |-> Garbage]}
      \cup {[net |-> "ok", status |-> st, read |-> "ok", body |-> Garbage]
              : st \in {StatusBadRequest, StatusInternalServerError}}
      \cup {[net |-> "ok", status |-> StatusOK, read |-> "error", body |-> Garbage]}
      \cup {[net |-> "ok", status |-> StatusOK, read |-> "ok", body |-> b]
              : b \in {Garbage,
                       [o \in {"erro"} |-> JBool(<<"t", "r", "u", "e">>)],
                       [o \in {"cep"} |-> JString(<<"1">>)],
                       [o \in {"erro", "localidade"} |->
                            IF o = "erro" THEN JString(<<"t", "r", "u", "e">>)
                            ELSE JString(<<"R", "i", "o">>)],
                       [o \in {"localidade"} |-> JNumber(<<"1">>)]}
                      \cup {[o \in {"localidade"} |-> JString(c)] : c \in Cities}}

\* What the weather provider answers; a decodable body without the
\* current.temp_c field leaves TempC at zero.
WeatherReplies ==
    {[net |-> "error", status |-> 0, read |-> "ok", json |-> FALSE, temp |-> 0]}
      \cup {[net |-> "ok", status |-> StatusBadRequest, read |-> "ok", json |-> TRUE, temp |-> 0]}
      \cup {[net |-> "ok", status |-> StatusOK, read |-> "error", json |-> FALSE, temp |-> 0]}
      \cup {[net |-> "ok", status |-> StatusOK, read |-> "ok", json |-> FALSE, temp |-> 0]}
      \cup {[net |-> "ok", status |-> StatusOK, read |-> "ok", json |-> TRUE, temp |-> t]
              : t \in Temps \cup {0}}

IsReplyError(reply) == reply.net = "error"

\* searchCity after makeHTTPRequest: the error (<<>> is nil) and the city
SearchCityResult(reply) ==
    IF reply.net = "error" THEN [err |-> <<"transport">>, city |-> <<>>]
    ELSE IF reply.status # StatusOK
      THEN [err |-> <<BackInternalServerError, "city">>, city |-> <<>>]
    ELSE IF reply.read = "error" THEN [err |-> <<"read">>, city |-> <<>>]
    ELSE IF reply.body = Garbage THEN [err |-> <<"unmarshal">>, city |-> <<>>]
    ELSE IF Lookup(reply.body, "erro") # Nil
      THEN [err |-> <<UnprocessibleEntity>>, city |-> <<>>]
    ELSE IF Lookup(reply.body, "localidade").t # "string"
      THEN [err |-> <<BackInternalServerError, "city">>, city |-> <<>>]
    ELSE [err |-> <<>>, city |-> Lookup(reply.body, "localidade").v]

\* searchWeather after client.Get: the error (<<>> is nil) and TempC
SearchWeatherResult(reply) ==
    IF reply.net = "error" THEN [err |-> <<"transport">>, temp |-> 0]
    ELSE IF reply.status # StatusOK
      THEN [err |-> <<BackInternalServerError, "weather">>, temp |-> 0]
    ELSE IF reply.read = "error" THEN [err |-> <<"read">>, temp |-> 0]
    ELSE IF ~reply.json THEN [err |-> <<"unmarshal">>, temp |-> 0]
    ELSE [err |-> <<>>, temp |-> reply.temp]

\* url.QueryEscape, character by character
QueryEscape(city) ==
    [i \in 1 .. Len(city) |->
        IF city[i] = " " THEN "+"
        ELSE IF city[i] \in Digits \cup {"R", "i", "o", "S", "P", "-", "_", ".", "~"}
          THEN city[i]
        ELSE "%"]

\* parseWeatherResponse: C*1.8+32 and C+273, in tenths of a degree
ParseWeatherResponse(city, temp) ==
    [kind |-> "json", text |-> <<>>, city |-> city,
     c |-> temp, f |-> (temp * 18) \div 10 + 320, k |-> temp + 2730]

\* ------------------------------------------------------- Back: HandleRequest
\* The context the Back handler works under: tr.Start(context.Background(), ..),
\* whatever headers the request carries.
BackBaseContext(req) == Background

BackEnter(req, before) ==
    /\ breq' = req
    /\ bpc' = "checks"
    /\ bdata' = NoBackData
    /\ bw' = NewWriter
    /\ bcancel' = FALSE
    /\ handled' = [handled EXCEPT !["back"] = @ + 1]
    /\ spans' = before
                  \cup {StartSpan(BackBaseContext(req), req.rid, "back", "back.request")}

\* The handler is entered with a request sent to the Back Service directly.
BackHandleClient ==
    /\ Serving("back")
    /\ Quiescent
    /\ nreq < MaxRequests
    /\ \E m \in Methods, b \in Bodies :
         BackEnter([rid |-> nreq + 1, origin |-> "client", method |-> m, body |-> b,
                    traceparent |-> NoTraceparent], {})
    /\ nreq' = nreq + 1
    /\ endLog' = <<>>
    /\ FrontIdle
    /\ UNCHANGED <<proc, valVars>>

\* The handler is entered with the request the Front Service forwards.
BackHandleForwarded ==
    /\ Serving("back")
    /\ bpc = "idle"
    /\ call.state = "inflight"
    /\ BackEnter([rid |-> freq.rid, origin |-> "front", method |-> "POST",
                  body |-> call.body, traceparent |-> call.traceparent], spans)
    /\ call' = [call EXCEPT !.state = "handling"]
    /\ UNCHANGED <<proc, nreq, freq, fpc, fdata, fw, fcancel, endLog, valVars>>

BackContext == WithSpan(BackBaseContext(breq), SpanOf("back.request"))

\* The three local checks, in the order of the code: method, body, format.
BackCheck(req) ==
    LET d == DecodeZipCode(req.body) IN
    IF req.method # "POST"
      THEN [status |-> StatusMethodNotAllowed, msg |-> MethodNotAllowed]
    ELSE IF ~d.ok
      THEN [status |-> StatusBadRequest, msg |-> InvalidJson]
    ELSE IF ~MatchString(BackPattern, d.cep)
      THEN [status |-> StatusUnprocessableEntity, msg |-> UnprocessibleEntity]
    ELSE [status |-> 0, msg |-> ""]

BackChecks ==
    /\ bpc = "checks"
    /\ LET r == BackCheck(breq) IN
         IF r.status # 0
           THEN /\ bw' = HttpError(bw, <<r.msg>>, r.status)
                /\ bpc' = "return"
                /\ UNCHANGED bdata
           ELSE /\ bdata' = [bdata EXCEPT !.cep = DecodeZipCode(breq.body).cep]
                /\ bpc' = "searchCity"
                /\ UNCHANGED bw
    /\ UNCHANGED <<proc, handled, nreq, frontVars, breq, bcancel, spanVars, valVars>>

\* The context of a lookup's outbound request: client.Get(url) builds the
\* request without one, so it is context.Background(), not the handler's ctx.
LookupContext(ctx) == Background

\* searchCity up to makeHTTPRequest: the child span, then the transport's span
BackSearchCity ==
    /\ bpc = "searchCity"
    /\ LET rc == LookupContext(BackContext) IN
         /\ spans' = spans \cup
                {StartSpan(BackContext, breq.rid, "back", "back.searchCity"),
                 StartSpan(rc, breq.rid, "back", "back.http.city")}
         /\ bdata' = [bdata EXCEPT !.cityCall =
                        [NoLookup EXCEPT !.state = "inflight", !.ctx = rc, !.q = bdata.cep]]
    /\ bpc' = "cityWait"
    /\ UNCHANGED <<proc, handled, nreq, frontVars, breq, bw, bcancel, endLog, valVars>>

\* End calls as searchCity returns: the transport's span (ended on an error,
\* or by the deferred resp.Body.Close()), then the deferred span.End().
BackSearchCityEnds == <<"back.http.city", "back.searchCity">>

\* a handler that goes on to the weather lookup whatever searchCity returned
AfterCityUnchecked(err) == "searchWeather"

\* the handler after searchCity: return on an error, else look the weather up
AfterCity(err) == IF err # <<>> THEN "return" ELSE "searchWeather"

\* the handler's answer to an error of searchCity
CityErrorResponse(w, err) == HttpError(w, <<NotFoundMessage>>, StatusNotFound)

\* The provider's reply arrives; searchCity returns; the handler answers an
\* error or goes on with the city.
BackCityReply ==
    /\ bpc = "cityWait"
    /\ \E reply \in CityReplies :
         /\ Canceled(bdata.cityCall.ctx, fcancel, bcancel) => IsReplyError(reply)
         /\ LET r == SearchCityResult(reply) IN
              /\ bdata' = [bdata EXCEPT
                             !.cityCall.state = IF IsReplyError(reply) THEN "error" ELSE "response",
                             !.cityReply = reply,
                             !.city = r.city]
              /\ bpc' = AfterCity(r.err)
              /\ bw' = IF AfterCity(r.err) = "return"
                       THEN CityErrorResponse(bw, r.err) ELSE bw
    /\ endLog' = EndAll(endLog, BackSearchCityEnds)
    /\ UNCHANGED <<proc, handled, nreq, frontVars, breq, bcancel, spans, valVars>>

\* searchWeather up to client.Get
BackSearchWeather ==
    /\ bpc = "searchWeather"
    /\ LET rc == LookupContext(BackContext) IN
         /\ spans' = spans \cup
                {StartSpan(BackContext, breq.rid, "back", "back.searchWeather"),
                 StartSpan(rc, breq.rid, "back", "back.http.weather")}
         /\ bdata' = [bdata EXCEPT !.weatherCall =
                        [NoLookup EXCEPT !.state = "inflight", !.ctx = rc,
                                         !.q = QueryEscape(bdata.city)]]
    /\ bpc' = "weatherWait"
    /\ UNCHANGED <<proc, handled, nreq, frontVars, breq, bw, bcancel, endLog, valVars>>

BackSearchWeatherEnds == <<"back.http.weather", "back.searchWeather">>

\* the handler's answer to an error of searchWeather
WeatherErrorResponse(w, err) ==
    HttpError(w, <<BackInternalServerError, "weather: ">> \o err, StatusInternalServerError)

\* the handler's answer when both lookups succeeded
WeatherResponse(w, city, temp) ==
    Write(WriteHeader(w, StatusOK), <<ParseWeatherResponse(city, temp), Text(<<"\n">>)>>)

\* The provider's reply arrives; searchWeather returns; the handler answers.
BackWeatherReply ==
    /\ bpc = "weatherWait"
    /\ \E reply \in WeatherReplies :
         /\ Canceled(bdata.weatherCall.ctx, fcancel, bcancel) => IsReplyError(reply)
         /\ LET r == SearchWeatherResult(reply) IN
              /\ bdata' = [bdata EXCEPT
                             !.weatherCall.state = IF IsReplyError(reply) THEN "error" ELSE "response",
                             !.weatherReply = reply]
              /\ bw' = IF r.err # <<>> THEN WeatherErrorResponse(bw, r.err)
                       ELSE WeatherResponse(bw, bdata.city, r.temp)
    /\ bpc' = "return"
    /\ endLog' = EndAll(endLog, BackSearchWeatherEnds)
    /\ UNCHANGED <<proc, handled, nreq, frontVars, breq, bcancel, spans, valVars>>

\* the handler's deferred calls: the root span's End
BackDeferred == <<"back.request">>

\* The handler returns; the response goes back to whoever sent the request.
BackReturn ==
    /\ bpc = "return"
    /\ endLog' = EndAll(endLog, BackDeferred)
    /\ bpc' = "done"
    /\ call' = IF breq.origin = "front" /\ call.state = "handling"
               THEN [call EXCEPT !.state = "answered", !.resp = bw]
               ELSE call
    /\ UNCHANGED <<proc, handled, nreq, freq, fpc, fdata, fw, fcancel,
                   breq, bdata, bw, bcancel, spans, valVars>>

\* the Back's direct client goes away while the handler runs
ClientCancelBack ==
    /\ bpc \notin {"idle", "done"}
    /\ breq.origin = "client"
    /\ ~bcancel
    /\ bcancel' = TRUE
    /\ bdata' = MarkCanceled(bdata)
    /\ UNCHANGED <<proc, handled, nreq, frontVars, breq, bpc, bw, spanVars, valVars>>

\* ------------------------------------------------------------- specification
Init ==
    /\ proc = [svc \in Services |-> ProcStart]
    /\ handled = [svc \in Services |-> 0]
    /\ nreq = 0
    /\ freq = NoRequest
    /\ fpc = "idle"
    /\ fdata = <<>>
    /\ fw = NewWriter
    /\ fcancel = FALSE
    /\ call = NoCall
    /\ breq = NoBackRequest
    /\ bpc = "idle"
    /\ bdata = NoBackData
    /\ bw = NewWriter
    /\ bcancel = FALSE
    /\ spans = {}
    /\ endLog = <<>>
    /\ input = <<>>
    /\ vstage = "typing"
    /\ verdict = [svc \in Services |-> "none"]

Startup ==
    \E svc \in Services :
        \/ NewResource(svc)
        \/ DialCollector(svc)
        \/ NewExporter(svc)
        \/ SetTracerProvider(svc)
        \/ ListenAndServe(svc)

Next ==
    \/ Startup
    \/ FrontHandleRequest
    \/ FrontChecks
    \/ FrontSearchWeather
    \/ FrontDoError
    \/ FrontDoResponse
    \/ FrontCopyOk
    \/ FrontCopyFail
    \/ FrontReturn
    \/ ClientCancelFront
    \/ BackHandleClient
    \/ BackHandleForwarded
    \/ BackChecks
    \/ BackSearchCity
    \/ BackCityReply
    \/ BackSearchWeather
    \/ BackWeatherReply
    \/ BackReturn
    \/ ClientCancelBack

Spec == Init /\ [][Next]_vars

\* ------------------------------------------- the validators on typed texts
\* SpecValidate types a text character by character and puts it, as the
\* cep of a POST request, through the checks of the two handlers.
Alphabet == {"4", "-", "x"}

Post(cep) == [rid |-> 0, method |-> "POST", body |-> [o \in {"cep"} |-> JString(cep)]]

Type ==
    /\ vstage = "typing"
    /\ Len(input) < MaxLen
    /\ \E c \in Alphabet : input' = Append(input, c)
    /\ UNCHANGED <<proc, handled, nreq, frontVars, backVars, spanVars, vstage, verdict>>

\* the Front's checks on the typed text
ValidateFront ==
    /\ vstage = "typing"
    /\ LET ok == FrontCheck(Post(input)).status = 0 IN
         /\ verdict' = [verdict EXCEPT !["front"] = IF ok THEN "accept" ELSE "reject"]
         /\ vstage' = IF ok THEN "forwarded" ELSE "answered"
    /\ UNCHANGED <<proc, handled, nreq, frontVars, backVars, spanVars, input>>

\* the Back's checks on what the Front forwards: json.Marshal of the decoded
\* requestData
ValidateForwarded ==
    /\ vstage = "forwarded"
    /\ LET sent == MarshalZipCode(DecodeZipCode(Post(input).body).cep)
           ok == BackCheck([rid |-> 0, method |-> "POST", body |-> sent]).status = 0
       IN verdict' = [verdict EXCEPT !["back"] = IF ok THEN "accept" ELSE "reject"]
    /\ vstage' = "answered"
    /\ UNCHANGED <<proc, handled, nreq, frontVars, backVars, spanVars, input>>

\* the Back's checks on the typed text, sent to it directly
ValidateBack ==
    /\ vstage = "typing"
    /\ LET ok == BackCheck(Post(input)).status = 0 IN
         verdict' = [verdict EXCEPT !["back"] = IF ok THEN "accept" ELSE "reject"]
    /\ vstage' = "answered"
    /\ UNCHANGED <<proc, handled, nreq, frontVars, backVars, spanVars, input>>

NextValidate ==
    \/ Type
    \/ ValidateFront
    \/ ValidateForwarded
    \/ ValidateBack

SpecValidate == Init /\ [][NextValidate]_vars

\* =================================================================== claims
\* what the claims say of inputs and replies, in their own words
WellFormed(s) ==
    \/ Len(s) = 8 /\ \A i \in 1 .. 8 : s[i] \in Digits
    \/ Len(s) = 9 /\ s[6] = "-" /\ \A i \in (1 .. 9) \ {6} : s[i] \in Digits
Unparseable(body) ==
    body = Garbage \/ Lookup(body, "cep").t \notin {"string", "null"}
CepOf(body) == Lookup(body, "cep").v
Delivered(reply) ==
    reply.net = "ok" /\ reply.read = "ok" /\ reply.body # Garbage
HasMarker(reply) == Delivered(reply) /\ "erro" \in DOMAIN reply.body
CityReturned(reply) ==
    /\ Delivered(reply) /\ reply.status = StatusOK /\ ~HasMarker(reply)
    /\ "localidade" \in DOMAIN reply.body
    /\ reply.body["localidade"].t = "string"
WeatherReturned(reply) ==
    reply.net = "ok" /\ reply.status = StatusOK /\ reply.read = "ok" /\ reply.json
Message(parts) == <<Text(parts), Text(<<"\n">>)>>
BackAnswered == bpc \in {"return", "done"}
FrontAnswered == fpc \in {"return", "done"}
CityLookupFailed ==
    /\ BackAnswered
    /\ bdata.cityCall.state \in {"response", "error"}
    /\ ~CityReturned(bdata.cityReply)

\* C1: in the Back Service a failed city lookup is answered 404 "can not find
\* zipcode" only when the provider's payload carries the not-found marker;
\* every other failure of the lookup is answered 500 "error while searching
\* for city".
C1_CityFailureStatus ==
    CityLookupFailed =>
        /\ bw.status = StatusNotFound => HasMarker(bdata.cityReply)
        /\ ~HasMarker(bdata.cityReply) =>
             /\ bw.status = StatusInternalServerError
             /\ bw.body = Message(<<BackInternalServerError, "city">>)

\* C2: the Back's steps are sequential and dependent: the weather provider
\* is called only after the city lookup returned a city, the city lookup only
\* after the format check passed, and 200 is sent only after both lookups
\* succeeded.
C2_Sequential ==
    /\ bdata.weatherCall.state # "none" =>
         /\ bdata.cityCall.state = "response"
         /\ CityReturned(bdata.cityReply)
         /\ bdata.city = bdata.cityReply.body["localidade"].v
    /\ bdata.cityCall.state # "none" =>
         /\ breq.method = "POST"
         /\ ~Unparseable(breq.body)
         /\ WellFormed(CepOf(breq.body))
    /\ bw.status = StatusOK =>
         /\ CityReturned(bdata.cityReply)
         /\ WeatherReturned(bdata.weatherReply)

\* a request answered 200 after both lookups
C2_Witness ==
    /\ bpc = "done"
    /\ bw.status = StatusOK
    /\ bdata.weatherCall.state = "response"

Precedence(req, w) ==
    /\ req.method # "POST" =>
         w.status = StatusMethodNotAllowed /\ w.body = Message(<<MethodNotAllowed>>)
    /\ req.method = "POST" /\ Unparseable(req.body) =>
         w.status = StatusBadRequest /\ w.body = Message(<<InvalidJson>>)
    /\ req.method = "POST" /\ ~Unparseable(req.body) /\ ~WellFormed(CepOf(req.body)) =>
         w.status = StatusUnprocessableEntity /\ w.body = Message(<<UnprocessibleEntity>>)
\* C3: in both handlers a non-POST method is answered 405 whatever the body,
\* an unparseable body 400 before any format check, and a malformed postal
\* code 422 with no upstream call made.
C3_Precedence ==
    /\ FrontAnswered => Precedence(freq, fw)
    /\ BackAnswered => Precedence(breq, bw)
    /\ fpc \notin {"idle", "checks"} /\ (freq.method # "POST" \/ Unparseable(freq.body)
                                         \/ ~WellFormed(CepOf(freq.body)))
         => call.state = "none"
    /\ bpc \notin {"idle", "checks"} /\ (breq.method # "POST" \/ Unparseable(breq.body)
                                         \/ ~WellFormed(CepOf(breq.body)))
         => bdata.cityCall.state = "none" /\ bdata.weatherCall.state = "none"

\* the Front answered 405 to a GET whose body is no JSON
C3_Witness ==
    /\ fpc = "done"
    /\ freq.method = "GET"
    /\ freq.body = Garbage
    /\ fw.status = StatusMethodNotAllowed

\* C4: for a valid POST to the Front, an upstream response with status s and
\* body b is relayed with status s and body b unchanged; a forwarding call
\* that fails is answered 500 with the generic message and no upstream status.
C4_Relay ==
    fpc = "done" =>
        /\ call.state = "responded" =>
             fw.status = call.resp.status /\ fw.body = call.resp.body
        /\ call.state = "failed" =>
             /\ fw.status = StatusInternalServerError
             /\ fw.body = Message(<<FrontInternalServerError>>)

RequestRoot == IF Started("front.request") THEN "front.request" ELSE "back.request"
\* C5: all spans of one end-to-end request share one trace identifier, each
\* child span's parent is the request's root span, and the Back's root span
\* continues the trace context the Front injected.
C5_OneTrace ==
    /\ \A a, b \in spans : a.trace = b.trace
    /\ \A a \in spans :
         a.name \notin {RequestRoot, "back.request"} =>
             a.parent \in {"front.request", "back.request"}
    /\ \A a \in spans :
         a.name = "back.request" /\ breq.origin = "front" => a.parent = "front.http"

\* C7: once the inbound request's context is canceled, no outbound call of
\* the request that was in flight runs to completion with a response.
C7_Cancellation ==
    /\ call.state = "responded" => ~call.canceledInFlight
    /\ bdata.cityCall.state = "response" => ~bdata.cityCall.canceledInFlight
    /\ bdata.weatherCall.state = "response" => ~bdata.weatherCall.canceledInFlight

\* C8: every span started is ended on every exit path of its operation, and
\* no child span is ended after its parent.
C8_SpansEnded ==
    /\ fpc = "done" => \A sp \in spans : sp.svc = "front" => Ended(sp.name)
    /\ bpc = "done" => \A sp \in spans : sp.svc = "back" => Ended(sp.name)
    /\ fpc \in {"copy", "return", "done"} /\ Started("front.searchWeather")
         => Ended("front.searchWeather")
    /\ bpc \in {"searchWeather", "weatherWait", "return", "done"} /\ Started("back.searchCity")
         => Ended("back.searchCity")
    /\ bpc \in {"return", "done"} /\ Started("back.searchWeather")
         => Ended("back.searchWeather")
    /\ \A sp \in spans :
         sp.parent # "none" /\ Ended(sp.parent) =>
             Ended(sp.name) /\ EndPos(sp.name) < EndPos(sp.parent)

\* the Front returned on the error path of searchWeather, its spans ended
C8_Witness ==
    /\ fpc = "done"
    /\ call.state = "failed"
    /\ Started("front.searchWeather")
    /\ Ended("front.request")

\* C9: a service handles requests only after resource, collector connection,
\* exporter and tracer provider were set up; when one of them fails the
\* process is aborted and has handled no request.
C9_FailFast ==
    \A svc \in Services :
        /\ (Serving(svc) \/ handled[svc] > 0) =>
             /\ proc[svc].res = "ok"
             /\ proc[svc].conn = "ok"
             /\ proc[svc].exp = "ok"
             /\ proc[svc].tp
        /\ (proc[svc].res = "failed" \/ proc[svc].conn \in {"timeout", "failed"}
              \/ proc[svc].exp = "failed") =>
             proc[svc].pc = "aborted" /\ handled[svc] = 0

\* the Back aborted on the dial timeout while the Front served a request
C9_Witness ==
    /\ proc["back"].conn = "timeout"
    /\ proc["back"].pc = "aborted"
    /\ handled["front"] > 0
    /\ fpc = "done"

FixedMessages == {MethodNotAllowed, InvalidJson, UnprocessibleEntity, FrontInternalServerError}
\* C10: a request to the Front gets exactly one status written, and its body
\* is one fixed error message or the upstream body, never a mixture.
C10_OneResponse ==
    fpc = "done" =>
        /\ fw.headerCalls = 1
        /\ \/ \E m \in FixedMessages : fw.body = Message(<<m>>)
           \/ call.state = "responded" /\ fw.body = call.resp.body

\* C6: a validator accepts a text exactly when it is five digits, an optional
\* hyphen and three digits, and the Back accepts whatever the Front forwards.
C6_Validator ==
    /\ \A svc \in Services :
         verdict[svc] # "none" => (verdict[svc] = "accept" <=> WellFormed(input))
    /\ verdict["front"] = "accept" /\ vstage = "answered" => verdict["back"] = "accept"

\* a hyphenated code accepted by the Front and, forwarded, by the Back
C6_Witness ==
    /\ vstage = "answered"
    /\ verdict["front"] = "accept"
    /\ verdict["back"] = "accept"
    /\ Len(input) = 9

====
